---- MODULE Spec2Model ----
(***************************************************************************)
(* Schema graph of bubbly (store/schemagraph.go): construction of the      *)
(* graph from the declared tables (NewSchemaGraph, createFrom,             *)
(* connectFrom, addEdgeFromJoin) and its traversal (Traverse,              *)
(* visitSchemaNode).                                                       *)
(*                                                                         *)
(* A schema (core.Tables) is kept as the list of its tables in declaration *)
(* order (pre-order of the nesting), each table carrying the index of its  *)
(* enclosing table (0 for a top-level table).  table.Tables is             *)
(* Children(i): the tables enclosed by table i, in declaration order.      *)
(* A *SchemaNode is identified by the key it has in the nodeRefMap: every  *)
(* node the graph refers to is the value the map holds for its table name. *)
(***************************************************************************)
EXTENDS Naturals, Sequences, FiniteSets, TLC

VARIABLES
  tables,      \* the schema handed to NewSchemaGraph
  pc,          \* "start" | "built" | "traverse" | "done"
  NodeIndex,   \* graph.NodeIndex: table name -> node (Table = 0: no entry)
  Nodes,       \* graph.Nodes: the root list, as node names
  err,         \* NewSchemaGraph returned an error
  visited,     \* Traverse: the visited set
  stack,       \* Traverse: the active visitSchemaNode calls, innermost last
  call,        \* Traverse: the node visitSchemaNode is about to be called on
  rootIdx,     \* Traverse: position of the loop over graph.Nodes
  visits,      \* the nodes fnVisit was applied to, in order
  traverseErr, \* Traverse returned an error
  mapGraph,    \* the graphs newSchemaGraphFromMap returned for the same tables
  gql,         \* newGraphQLSchema: the gqlField map and the query fields
  store,       \* the Store, its lock and its callers
  save,        \* cockroachdb.Save: the transaction and the database
  edgeCall,    \* SchemaNode.Edge: the call and what it returned
  implicit,    \* addImplicitIDs: the tables handed in and the tables returned
  symtab,      \* SymbolTable: the modules and what the lookups returned
  worker,      \* Worker.Run and its goroutine, the error channel
  importer     \* Importer.Apply: the source and the status returned

graphVars == <<tables, pc, NodeIndex, Nodes, err, visited, stack, call, rootIdx,
               visits, traverseErr>>

otherVars == <<edgeCall, implicit, symtab, worker, importer>>

vars == <<graphVars, mapGraph, gql, store, save, otherVars>>

\* the value of a variable that a specification does not use
Unused == "unused"

OthersUnused ==
  /\ edgeCall = Unused
  /\ implicit = Unused
  /\ symtab = Unused
  /\ worker = Unused
  /\ importer = Unused

-----------------------------------------------------------------------------
(* Bounds of the enumerated schemas *)

\* most declarations in a schema: its tables (top-level and nested) and their
\* explicit joins, counted together
MaxSize == 4

-----------------------------------------------------------------------------
(* RelType, schemagraph.go:25-29 *)

OneToOne == "OneToOne"
OneToMany == "OneToMany"
BelongsTo == "BelongsTo"

\* the table names schemas are written with, in order of first use
NameOf == <<"A", "B", "C", "D", "E", "F">>
\* a join target that no table is named
Unknown == "X"
AllNames == {NameOf[i] : i \in 1..Len(NameOf)} \cup {Unknown}

\* parent == nil in connectFrom
NoParent == "nil"

-----------------------------------------------------------------------------
(* The schemas NewSchemaGraph is called with.  Table names are taken up to *)
(* renaming: the k-th distinct name of a schema is NameOf[k].              *)

RECURSIVE MaxOf(_, _)
MaxOf(f, i) == IF i = 0 THEN 0
               ELSE LET m == MaxOf(f, i - 1) IN IF f[i] > m THEN f[i] ELSE m

NameFns(n) ==
  { f \in [1..n -> 1..n] : \A i \in 1..n : f[i] <= MaxOf(f, i - 1) + 1 }

\* i and the tables that enclose it
RECURSIVE Enclosing(_, _)
Enclosing(p, i) == IF i = 0 THEN {} ELSE {i} \cup Enclosing(p, p[i])

\* the enclosing table of i is 0 or one of the tables still open after i - 1
ParentFns(n) ==
  { p \in [1..n -> 0..(n - 1)] :
      \A i \in 1..n : p[i] = 0 \/ (i > 1 /\ p[i] \in Enclosing(p, i - 1)) }

\* table.Single is read for nested tables only (connectFrom, line 215): top-level
\* tables are written without it
SingleFns(n, p) ==
  { f \in [1..n -> BOOLEAN] : \A i \in 1..n : p[i] = 0 => ~f[i] }

\* which table declares the k-th join of the schema: joins are listed table by table
OwnerFns(n, k) ==
  { o \in [1..k -> 1..n] : \A a, b \in 1..k : a <= b => o[a] <= o[b] }

JoinsOn(names) ==
  [Table : {NameOf[i] : i \in names} \cup {Unknown}, Single : BOOLEAN]

RECURSIVE JoinsOf(_, _, _, _)
JoinsOf(o, js, i, k) ==
  IF k > Len(js) THEN <<>>
  ELSE IF o[k] = i THEN <<js[k]>> \o JoinsOf(o, js, i, k + 1)
       ELSE JoinsOf(o, js, i, k + 1)

MkSchema(n, nm, pa, sg, o, js) ==
  [i \in 1..n |-> [Name   |-> NameOf[nm[i]],
                   Single |-> sg[i],
                   Parent |-> pa[i],
                   Joins  |-> JoinsOf(o, js, i, 1)]]

-----------------------------------------------------------------------------
(* core.Tables as lists of table indices *)

RECURSIVE ChildrenFrom(_, _, _)
ChildrenFrom(ts, i, j) ==
  IF j > Len(ts) THEN <<>>
  ELSE IF ts[j].Parent = i THEN <<j>> \o ChildrenFrom(ts, i, j + 1)
       ELSE ChildrenFrom(ts, i, j + 1)

\* table.Tables of table i; Children(ts, 0) is the top-level list
Children(ts, i) == ChildrenFrom(ts, i, 1)

-----------------------------------------------------------------------------
(* SchemaNode, SchemaEdge, nodeRefMap *)

NoNode == [Table |-> 0, Edges |-> <<>>]
EmptyIndex == [n \in AllNames |-> NoNode]

\* the ok of a lookup in the nodeRefMap
HasNode(nodes, name) == nodes[name].Table # 0

\* addEdgeFromJoin that leaves out the reverse relationship
addEdgeFromJoinOneWay(nodes, n, child, unique) ==
  LET edgeToChild == [Node |-> child, Rel |-> IF unique THEN OneToOne ELSE OneToMany]
  IN [nodes EXCEPT ![n].Edges = Append(@, edgeToChild)]

\* addEdgeFromJoin: n gets the edge to the child, then the child the edge back
addEdgeFromJoin(nodes, n, child, unique) ==
  LET edgeToChild  == [Node |-> child, Rel |-> IF unique THEN OneToOne ELSE OneToMany]
      edgeToParent == [Node |-> n, Rel |-> BelongsTo]
      n1 == [nodes EXCEPT ![n].Edges = Append(@, edgeToChild)]
  IN [n1 EXCEPT ![child].Edges = Append(@, edgeToParent)]

\* createFrom: a node for every table of the list and, recursively, of its nested lists;
\* a name that is already a key of the map gets the new node
RECURSIVE createFrom(_, _, _)
createFrom(nodes, ts, list) ==
  IF list = <<>> THEN nodes
  ELSE LET index == Head(list)
           n1 == [nodes EXCEPT ![ts[index].Name] = [Table |-> index, Edges |-> <<>>]]
           n2 == createFrom(n1, ts, Children(ts, index))
       IN createFrom(n2, ts, Tail(list))

\* the loop of NewSchemaGraph over the top-level tables that collects the roots
RECURSIVE rootsFrom(_, _)
rootsFrom(ts, list) ==
  IF list = <<>> THEN <<>>
  ELSE (IF Len(ts[Head(list)].Joins) = 0 THEN <<ts[Head(list)].Name>> ELSE <<>>)
       \o rootsFrom(ts, Tail(list))

\* the loop of connectFrom over table.Joins: stops at the first join whose target
\* has no node
RECURSIVE connectJoins(_, _, _)
connectJoins(nodes, node, joins) ==
  IF joins = <<>> THEN [nodes |-> nodes, err |-> FALSE]
  ELSE LET join == Head(joins) IN
       IF ~HasNode(nodes, join.Table) THEN [nodes |-> nodes, err |-> TRUE]
       ELSE connectJoins(addEdgeFromJoin(nodes, join.Table, node, join.Single),
                         node, Tail(joins))

\* connectFrom: the explicit joins of each table, then the implicit join to the
\* enclosing table, then the nested tables; the error of the recursive call is
\* not looked at
RECURSIVE connectFrom(_, _, _, _)
connectFrom(nodes, ts, list, parent) ==
  IF list = <<>> THEN [nodes |-> nodes, err |-> FALSE]
  ELSE LET table == ts[Head(list)]
           node  == table.Name
           j     == connectJoins(nodes, node, table.Joins)
       IN IF j.err THEN j
          ELSE LET n1 == IF parent # NoParent
                         THEN addEdgeFromJoin(j.nodes, parent, node, table.Single)
                         ELSE j.nodes
                   r  == connectFrom(n1, ts, Children(ts, Head(list)), node)
               IN connectFrom(r.nodes, ts, Tail(list), parent)

-----------------------------------------------------------------------------
(* NewSchemaGraph *)

NewSchemaGraph ==
  /\ pc = "start"
  /\ LET top   == Children(tables, 0)
         nodes == createFrom(EmptyIndex, tables, top)
         c     == connectFrom(nodes, tables, top, NoParent)
     IN /\ Nodes' = rootsFrom(tables, top)
        /\ NodeIndex' = c.nodes
        /\ err' = c.err
  /\ pc' = "built"
  /\ UNCHANGED <<tables, visited, stack, call, rootIdx, visits, traverseErr>>
  /\ UNCHANGED <<mapGraph, gql, store, save, otherVars>>

-----------------------------------------------------------------------------
(* Traverse and visitSchemaNode.  A frame of the stack is a call of        *)
(* visitSchemaNode: its node and the position of its loop over node.Edges. *)

\* Traverse without the check of line 84
TraverseSkipNever(vis, name) == FALSE

\* Traverse, line 84: the root was visited already
TraverseSkip(vis, name) == name \in vis

\* visitSchemaNode, line 104: the destination of the edge was visited already
VisitSkip(vis, name) == name \in vis

\* Runs the loops of visitSchemaNode (innermost call first) and of Traverse on from
\* where they stand, up to the next call of visitSchemaNode or the return of Traverse
RECURSIVE Resume(_, _, _, _, _)
Resume(nodes, roots, st, ri, vis) ==
  IF st # <<>>
  THEN LET top   == st[Len(st)]
           edges == nodes[top.node].Edges
           i     == top.i + 1
       IN IF i > Len(edges)
          THEN Resume(nodes, roots, SubSeq(st, 1, Len(st) - 1), ri, vis)
          ELSE IF VisitSkip(vis, edges[i].Node)
               THEN Resume(nodes, roots, [st EXCEPT ![Len(st)].i = i], ri, vis)
               ELSE [stack   |-> [st EXCEPT ![Len(st)].i = i],
                     rootIdx |-> ri,
                     call    |-> edges[i].Node]
  ELSE LET r == ri + 1
       IN IF r > Len(roots)
          THEN [stack |-> <<>>, rootIdx |-> r, call |-> NoParent]
          ELSE IF TraverseSkip(vis, roots[r])
               THEN Resume(nodes, roots, <<>>, r, vis)
               ELSE [stack |-> <<>>, rootIdx |-> r, call |-> roots[r]]

\* Traverse is called on the graph NewSchemaGraph returned without error
Traverse ==
  /\ pc = "built"
  /\ ~err
  /\ LET r == Resume(NodeIndex, Nodes, <<>>, 0, {})
     IN /\ stack' = r.stack
        /\ rootIdx' = r.rootIdx
        /\ call' = r.call
        /\ pc' = IF r.call = NoParent THEN "done" ELSE "traverse"
  /\ visited' = {}
  /\ visits' = <<>>
  /\ traverseErr' = FALSE
  /\ UNCHANGED <<tables, NodeIndex, Nodes, err>>
  /\ UNCHANGED <<mapGraph, gql, store, save, otherVars>>

\* One call of visitSchemaNode up to its first recursive call or, when it makes
\* none, up to the next call made by an enclosing loop; ok: fnVisit returned nil
visitSchemaNode(ok) ==
  /\ pc = "traverse"
  /\ visits' = Append(visits, call)
  /\ IF ~ok
     THEN /\ traverseErr' = TRUE
          /\ pc' = "done"
          /\ call' = NoParent
          /\ UNCHANGED <<visited, stack, rootIdx>>
     ELSE /\ visited' = visited \cup {call}
          /\ LET r == Resume(NodeIndex, Nodes,
                             Append(stack, [node |-> call, i |-> 0]),
                             rootIdx, visited \cup {call})
             IN /\ stack' = r.stack
                /\ rootIdx' = r.rootIdx
                /\ call' = r.call
                /\ pc' = IF r.call = NoParent THEN "done" ELSE "traverse"
          /\ UNCHANGED traverseErr
  /\ UNCHANGED <<tables, NodeIndex, Nodes, err>>
  /\ UNCHANGED <<mapGraph, gql, store, save, otherVars>>

\* a schema is handed to NewSchemaGraph
InitGraph ==
  /\ \E n \in 0..MaxSize : \E nm \in NameFns(n) : \E pa \in ParentFns(n) :
       \E sg \in SingleFns(n, pa) : \E k \in 0..(MaxSize - n) : \E o \in OwnerFns(n, k) :
         \E js \in [1..k -> JoinsOn({nm[i] : i \in 1..n})] :
           tables = MkSchema(n, nm, pa, sg, o, js)
  /\ pc = "start"
  /\ NodeIndex = EmptyIndex
  /\ Nodes = <<>>
  /\ err = FALSE
  /\ visited = {}
  /\ stack = <<>>
  /\ call = NoParent
  /\ rootIdx = 0
  /\ visits = <<>>
  /\ traverseErr = FALSE

Init ==
  /\ InitGraph
  /\ mapGraph = <<>>
  /\ gql = Unused
  /\ store = Unused
  /\ save = Unused
  /\ OthersUnused

Next ==
  \/ NewSchemaGraph
  \/ Traverse
  \/ \E ok \in BOOLEAN : visitSchemaNode(ok)

Spec == Init /\ [][Next]_vars

-----------------------------------------------------------------------------
(* Vocabulary of the properties *)

Built == pc # "start"
Returned == Built /\ ~err

Declared(name) == \E i \in DOMAIN tables : tables[i].Name = name

EdgesOf(a) == NodeIndex[a].Edges

HasEdge(a, b, rel) ==
  \E k \in 1..Len(EdgesOf(a)) : EdgesOf(a)[k] = [Node |-> b, Rel |-> rel]

ParentRel(single) == IF single THEN OneToOne ELSE OneToMany

\* how many edges a -> b node a holds with a relation of rels
CountEdges(a, b, rels) ==
  Cardinality({ k \in 1..Len(EdgesOf(a)) :
                  EdgesOf(a)[k].Node = b /\ EdgesOf(a)[k].Rel \in rels })

\* the nodes one edge with a relation of rels leads to from a node of S
Step(S, rels) ==
  UNION { { EdgesOf(a)[k].Node :
              k \in { x \in 1..Len(EdgesOf(a)) : EdgesOf(a)[x].Rel \in rels } }
          : a \in S }

\* the nodes reached from S over one or more edges with a relation of rels
RECURSIVE ReachFrom(_, _)
ReachFrom(S, rels) ==
  LET T == S \cup Step(S, rels) IN IF T = S THEN S ELSE ReachFrom(T, rels)

Reach(a, rels) == ReachFrom(Step({a}, rels), rels)

AnyRel == {OneToOne, OneToMany, BelongsTo}
Forward == {OneToOne, OneToMany}

IndexedNames == { n \in AllNames : HasNode(NodeIndex, n) }

VisitedNodes == { visits[k] : k \in 1..Len(visits) }

UnknownJoin ==
  \E i \in DOMAIN tables : \E k \in 1..Len(tables[i].Joins) :
    ~Declared(tables[i].Joins[k].Table)

DuplicateTable ==
  \E i, j \in DOMAIN tables : i # j /\ tables[i].Name = tables[j].Name

CyclicSchema == \E a \in IndexedNames : a \in Reach(a, {BelongsTo})

\* a schema that meets the invariants of the data model
ValidSchema == ~UnknownJoin /\ ~DuplicateTable /\ ~CyclicSchema

-----------------------------------------------------------------------------
(* Claims about NewSchemaGraph *)

\* C1: in a graph returned without error for distinctly named tables, every
\* explicit join of a table C that names a declared table P has given P an edge to
\* C, OneToOne if the join is single and OneToMany otherwise, and C a BelongsTo
\* edge to P.
C1_ExplicitJoinEdges ==
  (Returned /\ ~DuplicateTable) =>
    \A i \in DOMAIN tables : \A k \in 1..Len(tables[i].Joins) :
      LET join == tables[i].Joins[k]
          C    == tables[i].Name
          P    == join.Table
      IN Declared(P) =>
           /\ HasEdge(P, C, ParentRel(join.Single))
           /\ HasEdge(C, P, BelongsTo)

\* C2: in a graph returned without error for distinctly named tables, every table
\* C nested in a table P (at any depth, P being the table that encloses it) has the
\* edges of a join from C to P: P -> C, OneToOne iff C.single and OneToMany
\* otherwise, and C -> P BelongsTo.
C2_NestedEdges ==
  (Returned /\ ~DuplicateTable) =>
    \A i \in DOMAIN tables :
      tables[i].Parent # 0 =>
        LET C == tables[i].Name
            P == tables[tables[i].Parent].Name
        IN /\ HasEdge(P, C, ParentRel(tables[i].Single))
           /\ HasEdge(C, P, BelongsTo)

\* C3: NewSchemaGraph returns an error whenever a table, top-level or nested,
\* declares a join to a table name that the schema does not declare.
C3_UnknownJoinTargetFails == (Built /\ UnknownJoin) => err

\* C4: no graph whose BelongsTo edges contain a cycle is returned without error.
C4_CyclicSchemaFails == (Built /\ CyclicSchema) => err

\* C5: NewSchemaGraph returns an error whenever two declared tables have the same
\* name, and the node NodeIndex holds for a name is never that of a later table
\* with the name of an earlier one.
C5_DuplicateTableFails ==
  Built =>
    /\ DuplicateTable => err
    /\ \A i, j \in DOMAIN tables :
         (i < j /\ tables[i].Name = tables[j].Name) =>
           NodeIndex[tables[i].Name].Table # j

\* C6: in every graph NewSchemaGraph returns, edges come in pairs: for all nodes a
\* and b the OneToMany/OneToOne edges a -> b and the BelongsTo edges b -> a match
\* one to one, so there are as many of the one kind as of the other.
C6_EdgesComeInPairs ==
  Built =>
    \A a, b \in IndexedNames :
      CountEdges(a, b, Forward) = CountEdges(b, a, {BelongsTo})

\* C6 witness: a returned graph that holds a parent/child pair of edges between
\* two different nodes.
C6_Witness ==
  /\ pc = "built"
  /\ \E a, b \in IndexedNames :
       a # b /\ CountEdges(a, b, Forward) >= 1 /\ CountEdges(b, a, {BelongsTo}) >= 1

\* C7: in a graph returned without error and without belongs-to cycle no node
\* holds two edges to the same destination node, also when a table declares two
\* joins to the same table or is nested under a table and joined to it.
C7_NoDuplicateEdges ==
  (Returned /\ ~CyclicSchema) =>
    \A a \in IndexedNames : \A k, l \in 1..Len(EdgesOf(a)) :
      k # l => EdgesOf(a)[k].Node # EdgesOf(a)[l].Node

\* C8: in a graph returned without error the roots listed in graph.Nodes are
\* exactly the nodes without outgoing BelongsTo edge, and every node of NodeIndex
\* is a root or reached from a root along edges of the graph.
C8_ReachableFromRoot ==
  Returned =>
    LET roots == { Nodes[k] : k \in 1..Len(Nodes) }
    IN /\ roots = { n \in IndexedNames : \A b \in IndexedNames :
                                           CountEdges(n, b, {BelongsTo}) = 0 }
       /\ \A n \in IndexedNames : n \in ReachFrom(roots, AnyRel)

-----------------------------------------------------------------------------
(* Claims about Traverse *)

\* C9: during one call of Traverse fnVisit is applied to each node at most once,
\* whatever the graph, graphs with cycles of parent/child edges included.
C9_VisitAtMostOnce ==
  \A k, l \in 1..Len(visits) : k # l => visits[k] # visits[l]

\* C9 witness: a finished Traverse that applied fnVisit to two nodes joined by a
\* parent/child cycle of edges.
C9_Witness ==
  /\ pc = "done"
  /\ \E a, b \in VisitedNodes :
       a # b /\ CountEdges(a, b, Forward) >= 1 /\ CountEdges(b, a, {BelongsTo}) >= 1

\* C10: a Traverse whose callback never fails applies the callback to every node
\* of NodeIndex, for every graph NewSchemaGraph returns.
C10_VisitsEveryNode ==
  (pc = "done" /\ ~traverseErr) => IndexedNames \subseteq VisitedNodes

-----------------------------------------------------------------------------
(* What holds of the schemas that meet the invariants of the data model: names *)
(* unique, every join target declared, no belongs-to cycle.                    *)

ValidSchemaGraph ==
  (Built /\ ValidSchema) =>
    /\ ~err
    /\ C1_ExplicitJoinEdges
    /\ C2_NestedEdges
    /\ C8_ReachableFromRoot
    /\ C10_VisitsEveryNode

-----------------------------------------------------------------------------
(* The order of Traverse *)

\* the pre-order of a depth-first walk that follows the edges with a relation of
\* rels, each node's edges in the order of its edge list, and takes no node twice
RECURSIVE PreOrderNode(_, _, _)
RECURSIVE PreOrderEdges(_, _, _, _)
PreOrderNode(seq, n, rels) ==
  IF \E k \in 1..Len(seq) : seq[k] = n THEN seq
  ELSE PreOrderEdges(Append(seq, n), n, 1, rels)

PreOrderEdges(seq, n, k, rels) ==
  IF k > Len(EdgesOf(n)) THEN seq
  ELSE LET e == EdgesOf(n)[k]
       IN PreOrderEdges(IF e.Rel \in rels THEN PreOrderNode(seq, e.Node, rels) ELSE seq,
                        n, k + 1, rels)

RECURSIVE PreOrderRoots(_, _, _)
PreOrderRoots(seq, r, rels) ==
  IF r > Len(Nodes) THEN seq
  ELSE PreOrderRoots(PreOrderNode(seq, Nodes[r], rels), r + 1, rels)

PreOrder(rels) == PreOrderRoots(<<>>, 1, rels)

IsPrefix(s, t) == Len(s) <= Len(t) /\ SubSeq(t, 1, Len(s)) = s

Traversing == pc \in {"traverse", "done"}

\* the edge visitSchemaNode follows for the call it is about to make
FollowsEdge == pc = "traverse" /\ stack # <<>>
FollowedEdge == EdgesOf(stack[Len(stack)].node)[stack[Len(stack)].i]

\* C11 as claimed, for the graph of a schema that meets the invariants of the data
\* model: Traverse applies fnVisit in the pre-order of the depth-first walk over
\* the forward edges (OneToMany, OneToOne), roots and sibling edges in declaration
\* order, and never calls visitSchemaNode over a BelongsTo edge.
C11_ForwardPreOrder ==
  (Traversing /\ ValidSchema) =>
    /\ IsPrefix(visits, PreOrder(Forward))
    /\ FollowsEdge => FollowedEdge.Rel \in Forward

\* C11 as amended: Traverse applies fnVisit in the pre-order of the depth-first
\* walk over all edges of a node, BelongsTo included, in the order of the node's
\* edge list, roots in the order of graph.Nodes; with a callback that never fails
\* the visits are that whole pre-order.
C11_PreOrderAllEdges ==
  Traversing =>
    /\ IsPrefix(visits, PreOrder(AnyRel))
    /\ (pc = "done" /\ ~traverseErr) => visits = PreOrder(AnyRel)

\* C11 witness: Traverse has applied fnVisit to a node and is about to call
\* visitSchemaNode on a node it reaches over a BelongsTo edge.
C11_Witness ==
  /\ FollowsEdge
  /\ FollowedEdge.Rel = BelongsTo
  /\ Len(visits) >= 1

-----------------------------------------------------------------------------
(* newSchemaGraphFromMap: the tables come out of a Go map, so the list handed *)
(* to NewSchemaGraph holds them in any order.                                 *)

\* the orders in which the range over the map can deliver the tables of list
MapOrders(list) ==
  { p \in [1..Len(list) -> {list[k] : k \in 1..Len(list)}] :
      \A a, b \in 1..Len(list) : a # b => p[a] # p[b] }

\* NewSchemaGraph on the top-level tables in the order of list
GraphOf(ts, list) ==
  LET nodes == createFrom(EmptyIndex, ts, list)
      c     == connectFrom(nodes, ts, list, NoParent)
  IN [Nodes |-> rootsFrom(ts, list), NodeIndex |-> c.nodes, err |-> c.err]

newSchemaGraphFromMap ==
  /\ pc = "built"
  /\ mapGraph = <<>>
  /\ \E order \in MapOrders(Children(tables, 0)) :
       mapGraph' = <<GraphOf(tables, order)>>
  /\ UNCHANGED <<graphVars, gql, store, save, otherVars>>

NextMap ==
  \/ NewSchemaGraph
  \/ newSchemaGraphFromMap

SpecMap == Init /\ [][NextMap]_vars

\* C12: two builds of a schema that meets the invariants of the data model, one
\* through NewSchemaGraph and one through newSchemaGraphFromMap, give the same
\* root list and the same edge list for every node, in the same order (and so
\* the same order of Traverse).
C12_GraphDeterminism ==
  (mapGraph # <<>> /\ ValidSchema) =>
    /\ mapGraph[1].Nodes = Nodes
    /\ \A n \in AllNames : mapGraph[1].NodeIndex[n].Edges = NodeIndex[n].Edges

-----------------------------------------------------------------------------
(* GraphQL schema (store/graphql.go).  A GraphQL type is a record with its  *)
(* kind and what it is of; a map is a function on the strings that are its  *)
(* keys.  A declared field is [Name, Type] with Type one of FieldTypes.     *)

\* most declared fields of the table handed to addGraphFields
MaxFields == 2

\* the types a declared field can have (spec, section 3)
FieldTypes == {"Bool", "Number", "String", "Object", "Map", "List"}
\* the names declared fields are written with
FieldNames == {"a", "a_not", "b"}

tableIDField == "_id"
filterID == "filter"
filterOnID == "filter_on"
firstID == "first"
lastID == "last"
orderByID == "order_by"
orderByType == "_order"
scalarFilters == <<"_gt", "_lt", "_gte", "_lte">>
listFilters == <<"_in", "_not_in">>

Scalar(name) == [kind |-> "Scalar", of |-> name]
mapScalar == Scalar("Map")
enumOrderBy == [kind |-> "Enum", of |-> "Order"]
ObjectType(name) == [kind |-> "Object", of |-> name]
NewList(type) == [kind |-> "List", of |-> type]
\* the value graphQLFieldType has when it panics
Panics == [kind |-> "panic", of |-> "Unsupported GraphQL conversion"]
\* the Type of the zero gqlField
NilType == [kind |-> "nil", of |-> "nil"]

EmptyMap == <<>>
\* a graphql.Field: its type and its arguments
Field(type, args) == [Type |-> type, Args |-> args]
Put(m, k, v) == [x \in DOMAIN m \cup {k} |-> IF x = k THEN v ELSE m[x]]

graphQLFieldType(f) ==
  CASE f.Type = "Bool"   -> Scalar("Boolean")
    [] f.Type = "Number" -> Scalar("Int")
    [] f.Type = "String" -> Scalar("String")
    [] f.Type = "Object" -> mapScalar
    [] f.Type = "Map"    -> mapScalar
    [] OTHER             -> Panics

\* the loop of addGraphFields over t.Fields, for typeFields and for gqlField.Args
RECURSIVE FieldsInto(_, _)
FieldsInto(m, fs) ==
  IF fs = <<>> THEN m
  ELSE FieldsInto(Put(m, Head(fs).Name, graphQLFieldType(Head(fs))), Tail(fs))

\* the loops of graphQLFilterType over the filters of one argument
RECURSIVE FiltersInto(_, _, _, _, _)
FiltersInto(fields, n, type, filters, k) ==
  IF k > Len(filters) THEN fields
  ELSE FiltersInto(Put(fields, n \o filters[k], type), n, type, filters, k + 1)

\* graphQLFilterType: order is the order in which the range delivers the arguments
RECURSIVE FilterFields(_, _, _, _)
FilterFields(fields, args, order, k) ==
  IF k > Len(order) THEN fields
  ELSE LET n  == order[k]
           f1 == FiltersInto(fields, n, args[n], scalarFilters, 1)
           f2 == FiltersInto(f1, n, NewList(args[n]), listFilters, 1)
       IN FilterFields(f2, args, order, k + 1)

graphQLFilterType(typeName, args, order) ==
  [kind |-> "Input", of |-> typeName \o "_filter",
   fields |-> FilterFields(EmptyMap, args, order, 1)]

graphQLOrderType(typeName, args) ==
  [kind |-> "Input", of |-> typeName \o orderByType,
   fields |-> [n \in DOMAIN args |-> enumOrderBy]]

\* the orders in which a range over a map with the keys of keys can deliver them
KeyOrders(keys) ==
  { p \in [1..Cardinality(keys) -> keys] :
      \A a, b \in 1..Cardinality(keys) : a # b => p[a] # p[b] }

\* addGraphFields for the table named name with the declared fields fs: the
\* gqlField map afterwards, or the panic of graphQLFieldType
addGraphFields(name, fs, fields, order) ==
  IF \E k \in 1..Len(fs) : graphQLFieldType(fs[k]) = Panics
  THEN [panicked |-> TRUE, fields |-> fields]
  ELSE LET args0 == Put(FieldsInto(EmptyMap, fs), tableIDField, Scalar("String"))
           typeFields == [n \in DOMAIN args0 |-> Field(args0[n], EmptyMap)]
           args1 == Put(args0, filterID, graphQLFilterType(name, args0, order))
           args2 == Put(args1, orderByID, graphQLOrderType(name, typeFields))
           args3 == Put(args2, filterOnID, Scalar("Boolean"))
           args4 == Put(args3, firstID, Scalar("Int"))
           args5 == Put(args4, lastID, Scalar("Int"))
           gqlField == [Type |-> [Name |-> name, Fields |-> typeFields],
                        Args |-> args5]
       IN [panicked |-> FALSE, fields |-> Put(fields, name, gqlField)]

\* the declared fields of a table and _id, as addGraphFields has them in
\* gqlField.Args when it calls graphQLFilterType
FilterArgs(fs) == {fs[k].Name : k \in 1..Len(fs)} \cup {tableIDField}

\* the lists of at most MaxFields declared fields with different names
FieldLists ==
  UNION { { fs \in [1..n -> [Name : FieldNames, Type : FieldTypes]] :
              \A a, b \in 1..n : a # b => fs[a].Name # fs[b].Name }
          : n \in 0..MaxFields }

\* the state of the graph variables when no graph is built
NoGraph ==
  /\ tables = <<>>
  /\ pc = "none"
  /\ NodeIndex = EmptyIndex
  /\ Nodes = <<>>
  /\ err = FALSE
  /\ visited = {}
  /\ stack = <<>>
  /\ call = NoParent
  /\ rootIdx = 0
  /\ visits = <<>>
  /\ traverseErr = FALSE
  /\ mapGraph = <<>>

\* a table named A with some declared fields is handed to addGraphFields
InitFields ==
  /\ NoGraph
  /\ \E fs \in FieldLists :
       gql = [declared |-> fs, done |-> FALSE, panicked |-> FALSE, fields |-> EmptyMap]
  /\ store = Unused
  /\ save = Unused
  /\ OthersUnused

AddGraphFields ==
  /\ ~gql.done
  /\ \E order \in KeyOrders(FilterArgs(gql.declared)) :
       LET r == addGraphFields(NameOf[1], gql.declared, EmptyMap, order)
       IN gql' = [gql EXCEPT !.done = TRUE, !.panicked = r.panicked, !.fields = r.fields]
  /\ UNCHANGED <<graphVars, mapGraph, store, save, otherVars>>

SpecFields == InitFields /\ [][AddGraphFields]_vars

\* the arguments addGraphFields adds after the filter is made
ControlArgs == {filterID, orderByID, filterOnID, firstID, lastID}
Filters == {scalarFilters[k] : k \in 1..Len(scalarFilters)} \cup {listFilters[k] : k \in 1..Len(listFilters)}
FieldsBuilt == gql.done /\ ~gql.panicked
\* two arguments of the filter give one member name (a_not_in is of a and of a_not)
CollidingMembers ==
  \E a, b \in FilterArgs(gql.declared) : \E f, g \in Filters : a # b /\ a \o f = b \o g
MembersOf(filter) ==
  /\ DOMAIN filter.fields = {a \o f : a \in FilterArgs(gql.declared), f \in Filters}
  /\ \A a \in FilterArgs(gql.declared) :
       /\ \A k \in 1..Len(scalarFilters) :
            filter.fields[a \o scalarFilters[k]] = gql.fields[NameOf[1]].Args[a]
       /\ \A k \in 1..Len(listFilters) :
            filter.fields[a \o listFilters[k]] = NewList(gql.fields[NameOf[1]].Args[a])
  /\ \A c \in ControlArgs : \A f \in Filters : c \o f \notin DOMAIN filter.fields

\* C15: the filter input type of a table has exactly the members a_gt, a_lt,
\* a_gte, a_lte of a's type and a_in, a_not_in of the list of a's type, for
\* each argument a among the declared fields and _id, and no member derived
\* from filter, order_by, filter_on, first or last.
C15_FilterMembers ==
  FieldsBuilt => MembersOf(gql.fields[NameOf[1]].Args[filterID])

\* what holds of the filter: the same, for tables where no two arguments give
\* one member name
FilterMembersApart ==
  (FieldsBuilt /\ ~CollidingMembers) => MembersOf(gql.fields[NameOf[1]].Args[filterID])

\* C16: with declared fields of any of the types Bool, Number, String, Object,
\* Map and List the build completes, and the object type of the table has one
\* field per declared field and _id.
C16_BuildCompletes ==
  gql.done =>
    /\ ~gql.panicked
    /\ DOMAIN gql.fields[NameOf[1]].Type.Fields = FilterArgs(gql.declared)

\* what holds of the build: it completes unless a declared field is a List
ObjectTypeFields ==
  gql.done =>
    /\ gql.panicked <=> \E k \in 1..Len(gql.declared) : gql.declared[k].Type = "List"
    /\ ~gql.panicked => DOMAIN gql.fields[NameOf[1]].Type.Fields = FilterArgs(gql.declared)

-----------------------------------------------------------------------------
(* newGraphQLSchema over a schema graph *)

\* the declared fields the tables of a schema handed to newGraphQLSchema have
GraphFieldLists == {<<>>, <<[Name |-> "a", Type |-> "String"]>>}

\* SchemaNode.Edge.isScalar
isScalar(edge) == edge.Rel # OneToMany

\* the nodes in the order in which Traverse hands them to a callback that
\* returns nil
RECURSIVE VisitAll(_, _, _, _, _)
VisitAll(nodes, roots, r, seq, vis) ==
  IF r.call = NoParent THEN seq
  ELSE VisitAll(nodes, roots,
                Resume(nodes, roots, Append(r.stack, [node |-> r.call, i |-> 0]),
                       r.rootIdx, vis \cup {r.call}),
                Append(seq, r.call), vis \cup {r.call})

VisitOrder(nodes, roots) ==
  VisitAll(nodes, roots, Resume(nodes, roots, <<>>, 0, {}), <<>>, {})

\* the first Traverse of newGraphQLSchema: addGraphFields on every visited node
RECURSIVE FieldsPass(_, _, _, _, _)
FieldsPass(fields, visit, k, fs, order) ==
  IF k > Len(visit) THEN fields
  ELSE FieldsPass(addGraphFields(visit[k], fs, fields, order).fields, visit, k + 1, fs, order)

\* AddFieldConfig of graphql.Object: sets the field of that name
AddFieldConfig(type, name, field) == [type EXCEPT !.Fields = Put(@, name, field)]

\* the type of the gqlField of a table, nil when the map has none
TypeOfField(fields, name) ==
  IF name \in DOMAIN fields THEN ObjectType(name) ELSE NilType
ArgsOfField(fields, name) ==
  IF name \in DOMAIN fields THEN fields[name].Args ELSE EmptyMap

\* addGraphEdges of the node n with the edges from the k-th on
RECURSIVE addGraphEdges(_, _, _, _)
addGraphEdges(fields, n, edges, k) ==
  IF k > Len(edges) THEN fields
  ELSE LET dst  == edges[k].Node
           type == IF ~isScalar(edges[k])
                   THEN NewList(TypeOfField(fields, dst))
                   ELSE TypeOfField(fields, dst)
       IN addGraphEdges([fields EXCEPT ![n].Type =
                           AddFieldConfig(@, dst, Field(type, ArgsOfField(fields, dst)))],
                        n, edges, k + 1)

\* the second Traverse of newGraphQLSchema: addGraphEdges on every visited node
RECURSIVE EdgesPass(_, _, _, _)
EdgesPass(fields, nodes, visit, k) ==
  IF k > Len(visit) THEN fields
  ELSE EdgesPass(addGraphEdges(fields, visit[k], nodes[visit[k]].Edges, 1), nodes, visit, k + 1)

\* the top-level query fields, one for every gqlField of the map
QueryFields(fields) ==
  [name \in {fields[n].Type.Name : n \in DOMAIN fields} |->
     Field(NewList(ObjectType(name)), fields[name].Args)]

\* a schema is handed to NewSchemaGraph, and its graph to newGraphQLSchema
InitGQL ==
  /\ InitGraph
  /\ mapGraph = <<>>
  /\ \E fs \in GraphFieldLists :
       gql = [declared |-> fs, done |-> FALSE, panicked |-> FALSE,
              fields |-> EmptyMap, queryFields |-> EmptyMap]
  /\ store = Unused
  /\ save = Unused
  /\ OthersUnused

\* newGraphQLSchema on the graph NewSchemaGraph returned without error
newGraphQLSchema ==
  /\ pc = "built"
  /\ ~err
  /\ ~gql.done
  /\ IF Len(Nodes) = 0
     THEN gql' = [gql EXCEPT !.done = TRUE]
     ELSE \E order \in KeyOrders(FilterArgs(gql.declared)) :
            LET visit == VisitOrder(NodeIndex, Nodes)
                f1    == FieldsPass(EmptyMap, visit, 1, gql.declared, order)
                f2    == EdgesPass(f1, NodeIndex, visit, 1)
            IN gql' = [gql EXCEPT !.done = TRUE, !.fields = f2,
                                  !.queryFields = QueryFields(f2)]
  /\ UNCHANGED <<graphVars, mapGraph, store, save, otherVars>>

NextGQL == NewSchemaGraph \/ newGraphQLSchema
SpecGQL == InitGQL /\ [][NextGQL]_vars

\* the GraphQL type an edge is to be presented with
EdgeType(e) ==
  IF e.Rel = OneToMany THEN NewList(ObjectType(e.Node)) ELSE ObjectType(e.Node)
HasObjectField(n, m) ==
  /\ n \in DOMAIN gql.fields
  /\ m \in DOMAIN gql.fields[n].Type.Fields

\* C13: for every edge n -> m of the graph the object type of n has a field
\* named m, whose type is the list of m's object type if and only if the edge
\* is OneToMany, and m's object type otherwise.
C13_EdgeScalarRule ==
  (gql.done /\ ValidSchema) =>
    \A n \in IndexedNames : \A k \in 1..Len(EdgesOf(n)) :
      /\ HasObjectField(n, EdgesOf(n)[k].Node)
      /\ gql.fields[n].Type.Fields[EdgesOf(n)[k].Node].Type = EdgeType(EdgesOf(n)[k])

\* what holds of the fields made from edges: each has the type of the last
\* edge to its table in the edge list of the node
LastEdgeType ==
  (gql.done /\ ValidSchema) =>
    \A n \in IndexedNames : \A k \in 1..Len(EdgesOf(n)) :
      /\ HasObjectField(n, EdgesOf(n)[k].Node)
      /\ (\A j \in (k + 1)..Len(EdgesOf(n)) : EdgesOf(n)[j].Node # EdgesOf(n)[k].Node)
           => gql.fields[n].Type.Fields[EdgesOf(n)[k].Node].Type = EdgeType(EdgesOf(n)[k])

\* the arguments addGraphFields gives the gqlField of a table
FullArgs == FilterArgs(gql.declared) \cup ControlArgs
HasQueryField(n) ==
  /\ n \in DOMAIN gql.queryFields
  /\ n \in DOMAIN gql.fields
  /\ gql.queryFields[n].Type = NewList(ObjectType(n))
  /\ gql.queryFields[n].Args = gql.fields[n].Args
  /\ DOMAIN gql.queryFields[n].Args = FullArgs

\* C14: the top-level query object newGraphQLSchema builds for a schema graph
\* has one list-typed field for every table in the NodeIndex of the graph,
\* nested tables and tables that are not roots included, with the full
\* argument set of the table.
C14_QueryFieldPerTable ==
  gql.done => \A n \in IndexedNames : HasQueryField(n)

\* what holds of the query object: the same for the graphs of valid schemas,
\* and for every graph one such field for every table Traverse visits
QueryFieldPerVisited ==
  gql.done =>
    /\ ValidSchema => \A n \in IndexedNames : HasQueryField(n)
    /\ Len(Nodes) = 0 => gql.queryFields = EmptyMap
    /\ Len(Nodes) > 0 =>
         /\ \A k \in 1..Len(VisitOrder(NodeIndex, Nodes)) :
              HasQueryField(VisitOrder(NodeIndex, Nodes)[k])
         /\ DOMAIN gql.queryFields =
              {VisitOrder(NodeIndex, Nodes)[k] : k \in 1..Len(VisitOrder(NodeIndex, Nodes))}

\* the order VisitOrder gives is the order in which Traverse makes its calls
VisitOrderIsTraverse ==
  (pc = "done" /\ ~traverseErr) => visits = VisitOrder(NodeIndex, Nodes)

-----------------------------------------------------------------------------
(* Store (store package in agent/component/worker/worker.go, lines 213-280) *)
(* Callers run Query, Schema, Create and Save concurrently.  A schema value *)
(* is named by the number of the commit of the provider that applied the    *)
(* tables it is built from, 0 for the zero graphql.Schema and for no tables.  graphql.Schema is a struct of several    *)
(* words, so s.schema is a pair that is written and copied a part at a      *)
(* time.  store is the record                                               *)
(*   schema    s.schema                                                     *)
(*   provider  the schema whose transaction the provider committed last     *)
(*   data      the callers whose data blocks the provider holds             *)
(*   readers   the callers that hold s.mu in shared mode                    *)
(*   writer    the caller in s.mu.Lock or holding s.mu in exclusive mode    *)
(*   pc, op    where each caller stands, and in which operation             *)
(*   id        the schema value the caller builds                           *)
(*   copy      the copy of s.schema the caller has made so far              *)
(*   atLock    s.schema when the caller took the shared lock                *)
(*   nextID    the number of the next schema the provider commits           *)
(*   bad       the schemas for whose tables newGraphQLSchema gives an error *)
(*   saved     the newest schema of those the Saves that returned nil built *)

\* most calls of Create
MaxCreates == 2

Procs == {"p1", "p2"}
NoProc == "none"
NoSchema == 0
NotRead == 99

InitStore ==
  /\ NoGraph
  /\ gql = Unused
  /\ save = Unused
  /\ OthersUnused
  /\ store = [schema   |-> <<NoSchema, NoSchema>>,
              provider |-> NoSchema,
              data     |-> {},
              readers  |-> {},
              writer   |-> NoProc,
              pc       |-> [p \in Procs |-> "idle"],
              op       |-> [p \in Procs |-> "none"],
              id       |-> [p \in Procs |-> NoSchema],
              copy     |-> [p \in Procs |-> <<NotRead, NotRead>>],
              atLock   |-> [p \in Procs |-> <<NoSchema, NoSchema>>],
              nextID   |-> 1,
              bad      |-> {},
              saved    |-> NoSchema]

StoreUnchanged == UNCHANGED <<graphVars, mapGraph, gql, save, otherVars>>

\* sync.RWMutex.Lock waits until the readers have left
DrainedAlways(readers) == TRUE
Drained(readers) == readers = {}

\* sync.RWMutex.RLock waits while a caller is in Lock or holds the lock
\* s.mu.RLock() of Query (op = "Query") and of Schema (op = "Schema")
RLock(p, op) ==
  /\ store.pc[p] = "idle"
  /\ store.writer = NoProc
  /\ store' = [store EXCEPT !.pc[p] = "read1", !.op[p] = op,
                            !.readers = @ \cup {p},
                            !.atLock[p] = store.schema]
  /\ StoreUnchanged

\* the read of s.schema, first part
Read1(p) ==
  /\ store.pc[p] = "read1"
  /\ store' = [store EXCEPT !.pc[p] = "read2", !.copy[p][1] = store.schema[1]]
  /\ StoreUnchanged

\* the read of s.schema, second part
Read2(p) ==
  /\ store.pc[p] = "read2"
  /\ store' = [store EXCEPT !.pc[p] = IF store.op[p] = "Query" THEN "do" ELSE "runlock",
                            !.copy[p][2] = store.schema[2]]
  /\ StoreUnchanged

\* what a caller holds when it is in no operation
Idle(st, p) ==
  [st EXCEPT !.pc[p] = "idle", !.op[p] = "none", !.id[p] = NoSchema,
             !.copy[p] = <<NotRead, NotRead>>,
             !.atLock[p] = <<NoSchema, NoSchema>>]

\* graphql.Do of Query on the copy
Do(p) ==
  /\ store.pc[p] = "do"
  /\ store' = [store EXCEPT !.pc[p] = "runlock"]
  /\ StoreUnchanged

\* the deferred s.mu.RUnlock() and the return
RUnlock(p) ==
  /\ store.pc[p] = "runlock"
  /\ store' = Idle([store EXCEPT !.readers = @ \ {p}], p)
  /\ StoreUnchanged

\* the callers in Create whose s.p.Create has not returned
Applying == {q \in Procs : store.op[q] = "Create" /\ store.pc[q] = "provider"}

\* Create is called with the tables of a schema
Create(p) ==
  /\ store.pc[p] = "idle"
  /\ store.nextID + Cardinality(Applying) <= MaxCreates
  /\ store' = [store EXCEPT !.pc[p] = "provider", !.op[p] = "Create"]
  /\ StoreUnchanged

\* s.p.Create(tables): the provider applies the tables in one transaction,
\* which commits (ok) or is rolled back; buildable: newGraphQLSchema gives a
\* schema for these tables
ProviderCreate(p, ok, buildable) ==
  /\ store.pc[p] = "provider"
  /\ store.op[p] = "Create"
  /\ store' = IF ok
              THEN [store EXCEPT !.pc[p] = "build", !.provider = store.nextID,
                                 !.id[p] = store.nextID, !.nextID = @ + 1,
                                 !.bad = IF buildable THEN @ ELSE @ \cup {store.nextID}]
              ELSE [store EXCEPT !.pc[p] = "failed"]
  /\ StoreUnchanged

\* Save is called with data blocks
Save(p) ==
  /\ store.pc[p] = "idle"
  /\ store' = [store EXCEPT !.pc[p] = "provider", !.op[p] = "Save"]
  /\ StoreUnchanged

\* s.p.Save(data): the provider saves the data and gives the tables it holds,
\* or gives an error
ProviderSave(p, ok) ==
  /\ store.pc[p] = "provider"
  /\ store.op[p] = "Save"
  /\ store' = IF ok
              THEN [store EXCEPT !.pc[p] = "build",
                                 !.data = @ \cup {p},
                                 !.id[p] = store.provider]
              ELSE [store EXCEPT !.pc[p] = "failed"]
  /\ StoreUnchanged

\* newGraphQLSchema(tables, s.p) of Create and of Save
Build(p) ==
  /\ store.pc[p] = "build"
  /\ store' = IF store.id[p] \notin store.bad
              THEN [store EXCEPT !.pc[p] = "lock"]
              ELSE [store EXCEPT !.pc[p] = "failed"]
  /\ StoreUnchanged

\* the return of the error by Create and by Save
ReturnError(p) ==
  /\ store.pc[p] = "failed"
  /\ store' = Idle(store, p)
  /\ StoreUnchanged

\* s.mu.Lock(): the caller is the one writer, and new readers wait
LockCall(p) ==
  /\ store.pc[p] = "lock"
  /\ store.writer = NoProc
  /\ store' = [store EXCEPT !.pc[p] = "lockwait", !.writer = p]
  /\ StoreUnchanged

\* s.mu.Lock() returns when the readers have left
LockAcquire(p) ==
  /\ store.pc[p] = "lockwait"
  /\ Drained(store.readers)
  /\ store' = [store EXCEPT !.pc[p] = "swap1"]
  /\ StoreUnchanged

\* s.schema = schema, first part
Swap1(p) ==
  /\ store.pc[p] = "swap1"
  /\ store' = [store EXCEPT !.pc[p] = "swap2", !.schema[1] = store.id[p]]
  /\ StoreUnchanged

\* s.schema = schema, second part
Swap2(p) ==
  /\ store.pc[p] = "swap2"
  /\ store' = [store EXCEPT !.pc[p] = "unlock", !.schema[2] = store.id[p]]
  /\ StoreUnchanged

\* s.mu.Unlock() and return nil
Unlock(p) ==
  /\ store.pc[p] = "unlock"
  /\ store' = Idle([store EXCEPT !.writer = NoProc,
                                 !.saved = IF store.op[p] = "Save" /\ store.id[p] > @
                                           THEN store.id[p] ELSE @], p)
  /\ StoreUnchanged

NextStore ==
  \E p \in Procs :
    \/ RLock(p, "Query")
    \/ RLock(p, "Schema")
    \/ Read1(p)
    \/ Read2(p)
    \/ Do(p)
    \/ RUnlock(p)
    \/ Create(p)
    \/ \E ok, buildable \in BOOLEAN : ProviderCreate(p, ok, buildable)
    \/ Save(p)
    \/ \E ok \in BOOLEAN : ProviderSave(p, ok)
    \/ Build(p)
    \/ ReturnError(p)
    \/ LockCall(p)
    \/ LockAcquire(p)
    \/ Swap1(p)
    \/ Swap2(p)
    \/ Unlock(p)

SpecStore == InitStore /\ [][NextStore]_vars

\* the caller holds s.mu in shared mode and is in its read
Reading(p) == store.pc[p] \in {"read1", "read2", "do", "runlock"}
\* the caller has passed s.mu.Lock() and not yet s.mu.Unlock()
HoldsExclusive(p) == store.writer = p /\ store.pc[p] \in {"swap1", "swap2", "unlock"}
\* the caller is in Create, between its call and its return
InCreate(p) ==
  /\ store.op[p] = "Create"
  /\ store.pc[p] \in {"provider", "build", "lock", "lockwait", "swap1", "swap2", "unlock"}
\* the provider has committed the schema change of the caller, and s.schema
\* is not yet swapped
BetweenChangeAndSwap(p) ==
  /\ store.op[p] = "Create"
  /\ store.pc[p] \in {"build", "lock", "lockwait", "swap1", "swap2"}

\* C17: under any interleaving of Query, Schema, Create and Save a reader
\* uses one schema value for its whole operation: while it holds the shared
\* lock s.schema is the value it had when the lock was taken, that value is
\* whole (of one swap, never a mixture of two), and the copy the reader makes
\* is that value.
C17_SingleSchemaValue ==
  \A p \in Procs : Reading(p) =>
    /\ p \in store.readers
    /\ store.schema = store.atLock[p]
    /\ store.atLock[p][1] = store.atLock[p][2]
    /\ store.pc[p] # "read1" => store.copy[p][1] = store.atLock[p][1]
    /\ store.pc[p] \in {"do", "runlock"} => store.copy[p] = store.atLock[p]

\* a reader is in the middle of its copy of a swapped-in schema while a
\* writer with another schema waits in Lock
C17_Witness ==
  \E r, w \in Procs :
    /\ store.pc[r] = "read2"
    /\ store.atLock[r][1] # NoSchema
    /\ store.pc[w] = "lockwait"
    /\ store.id[w] # store.schema[1]

\* C18: the lock is held in exclusive mode for the whole of Create, the
\* transaction of the provider included, so that no Query runs between the
\* schema change of the provider and the swap of s.schema; every Query holds
\* the lock in shared mode.
C18_ExclusiveForWholeCreate ==
  /\ \A p \in Procs : InCreate(p) => HoldsExclusive(p)
  /\ \A w, r \in Procs :
       BetweenChangeAndSwap(w) => ~(store.op[r] = "Query" /\ Reading(r))
  /\ \A r \in Procs : (store.op[r] = "Query" /\ Reading(r)) => r \in store.readers

\* what holds of the lock: it is held in exclusive mode during the swap, by
\* one caller and with no reader, and in shared mode during every read
ExclusiveForSwap ==
  /\ \A p \in Procs : store.pc[p] \in {"swap1", "swap2", "unlock"} =>
       /\ store.writer = p
       /\ store.readers = {}
  /\ \A r \in Procs : Reading(r) <=> r \in store.readers

\* C19: when Create fails at any step, the error of the provider or the
\* error of the GraphQL schema build, the transaction of the provider is
\* rolled back (the call has committed no schema) and s.schema is left as it
\* was.
C19_FailedApplyRolledBack ==
  \A p \in Procs : (store.op[p] = "Create" /\ store.pc[p] = "failed") =>
    /\ store.id[p] = NoSchema
    /\ store.id[p] # NoSchema =>
         (store.schema[1] # store.id[p] /\ store.schema[2] # store.id[p])

\* what holds of a failed Create: s.schema is left as it was
FailedCreateKeepsSchema ==
  \A p \in Procs : (store.op[p] = "Create" /\ store.pc[p] = "failed" /\ store.id[p] # NoSchema) =>
      /\ store.id[p] \in store.bad
      /\ store.schema[1] # store.id[p]
      /\ store.schema[2] # store.id[p]

\* C21: every Query that starts after a Save has returned nil observes the
\* effects of that Save: the provider holds the saved data when Save returns,
\* and the schema the Query uses is the one built from that Save or from a
\* Create or Save applied after it.
C21_QueryObservesSave ==
  /\ \A p \in Procs : (store.op[p] = "Save" /\ store.pc[p] = "unlock") => p \in store.data
  /\ \A q \in Procs : (store.op[q] = "Query" /\ Reading(q)) =>
       store.atLock[q][1] >= store.saved

\* what holds after a Save: the provider holds its data
SaveKeepsData ==
  \A p \in Procs :
    (store.op[p] = "Save" /\ store.pc[p] \in {"build", "lock", "lockwait", "swap1", "swap2", "unlock"})
      => p \in store.data

AllIdle == \A p \in Procs : store.pc[p] = "idle"

\* C25: when two Creates, or a Create and a Save, run concurrently and the
\* schemas build, after both have returned s.schema is the schema that was
\* applied last to the provider: the swaps come in the order of the applies.
C25_SwapOrderIsApplyOrder ==
  (AllIdle /\ store.bad = {}) => store.schema = <<store.provider, store.provider>>

\* C30: a Create that returns an error leaves the provider as it was: the
\* provider never holds a schema whose GraphQL build fails, so that the
\* provider and s.schema describe the same tables whenever no Create or Save
\* is under way.
C30_ProviderMatchesSchema ==
  /\ store.provider \notin store.bad
  /\ (\A p \in Procs : store.op[p] \notin {"Create", "Save"}) =>
       store.schema = <<store.provider, store.provider>>

-----------------------------------------------------------------------------
(* cockroachdb.Save (store/cockroachdb.go, lines 47-60)                     *)
(* A data tree is the sequence of the parents of its nodes, 0 for a root;   *)
(* a parent stands before its children.  crdbpgx.ExecuteTx runs its         *)
(* function in one transaction, which it commits when the function returns  *)
(* nil and rolls back when it returns an error; a retry of a retryable      *)
(* error starts the transaction anew and is not modelled.  save is the      *)
(* record                                                                   *)
(*   tree       the data tree handed to Save                                *)
(*   order      the nodes in the order tree.traverse visits them            *)
(*   next       the place in order of the node saved next                   *)
(*   tx         the nodes whose rows the open transaction has written       *)
(*   persisted  the nodes whose rows the database holds                     *)
(*   failed     the node whose save failed, 0 when none did                 *)
(*   pc         where Save stands                                           *)
(*   returned   what Save returned                                          *)

\* most nodes of a data tree
MaxNodes == 4

NoNodeFailed == 0

\* the data trees of n nodes
DataTrees(n) == { pa \in [1..n -> 0..n] : \A i \in 1..n : pa[i] < i }

\* tree.traverse: the nodes of the subtrees of the nodes with parent par from
\* the k-th node on, a node before its children
RECURSIVE traverse(_, _, _)
traverse(tree, par, k) ==
  IF k > Len(tree) THEN <<>>
  ELSE IF tree[k] = par
       THEN <<k>> \o traverse(tree, k, k + 1) \o traverse(tree, par, k + 1)
       ELSE traverse(tree, par, k + 1)

InitSave ==
  /\ NoGraph
  /\ gql = Unused
  /\ store = Unused
  /\ OthersUnused
  /\ \E n \in 0..MaxNodes : \E tree \in DataTrees(n) :
       save = [tree |-> tree, order |-> traverse(tree, 0, 1), next |-> 1,
               tx |-> {}, persisted |-> {}, failed |-> NoNodeFailed,
               pc |-> "start", returned |-> "none"]

SaveUnchanged == UNCHANGED <<graphVars, mapGraph, gql, store, otherVars>>

\* what the database holds after the end of a transaction that wrote tx
RolledBackKeepsWrites(persisted, tx) == persisted \cup tx
RolledBack(persisted, tx) == persisted
Committed(persisted, tx) == persisted \cup tx

\* crdbpgx.ExecuteTx begins the transaction and calls the function
ExecuteTx ==
  /\ save.pc = "start"
  /\ save' = [save EXCEPT !.pc = "fn", !.tx = {}, !.next = 1]
  /\ SaveUnchanged

\* saveNode on the next node of tree.traverse: psqlSaveNode writes its row in
\* the transaction (ok) or returns an error, with which traverse returns
psqlSaveNode(ok) ==
  /\ save.pc = "fn"
  /\ save.next <= Len(save.order)
  /\ save' = IF ok
             THEN [save EXCEPT !.tx = @ \cup {save.order[save.next]}, !.next = @ + 1]
             ELSE [save EXCEPT !.failed = save.order[save.next], !.pc = "rollback"]
  /\ SaveUnchanged

\* tree.traverse returned nil: ExecuteTx commits, and Save returns nil; when
\* the commit fails the transaction is rolled back
Commit(ok) ==
  /\ save.pc = "fn"
  /\ save.next > Len(save.order)
  /\ save' = IF ok
             THEN [save EXCEPT !.persisted = Committed(@, save.tx), !.tx = {},
                               !.pc = "done", !.returned = "nil"]
             ELSE [save EXCEPT !.pc = "rollback"]
  /\ SaveUnchanged

\* ExecuteTx rolls back and returns the error, which Save wraps and returns
Rollback ==
  /\ save.pc = "rollback"
  /\ save' = [save EXCEPT !.persisted = RolledBack(@, save.tx), !.tx = {},
                          !.pc = "done", !.returned = "error"]
  /\ SaveUnchanged

NextSave ==
  \/ ExecuteTx
  \/ \E ok \in BOOLEAN : psqlSaveNode(ok)
  \/ \E ok \in BOOLEAN : Commit(ok)
  \/ Rollback

SpecSave == InitSave /\ [][NextSave]_vars

TreeNodes == DOMAIN save.tree
SavedSoFar == {save.order[k] : k \in 1..(save.next - 1)}

ParentFirst ==
  /\ Len(save.order) = Len(save.tree)
  /\ {save.order[k] : k \in 1..Len(save.order)} = TreeNodes
  /\ \A a, b \in 1..Len(save.order) :
       save.tree[save.order[b]] = save.order[a] => a < b

-----------------------------------------------------------------------------
(* SchemaNode.Edge (store/schemagraph.go, lines 39-46)                      *)
(* edgeCall is the record of the node's edge list, the name asked for and,  *)
(* after the call, what Edge returned.                                      *)

\* most edges of the node Edge is called on
MaxEdges == 3

\* the names of the tables the edges of the node lead to
EdgeNames == {"A", "B", "C"}
NilEdge == [Node |-> "nil", Rel |-> "nil"]

\* the edge lists of at most MaxEdges edges
EdgeLists ==
  UNION { [1..n -> [Node : EdgeNames, Rel : AnyRel]] : n \in 0..MaxEdges }

\* line 41: the edge leads to the node of that name
EdgeMatchesAny(e, node) == TRUE
EdgeMatches(e, node) == e.Node = node

\* SchemaNode.Edge: the loop over n.Edges from the k-th edge on
RECURSIVE Edge(_, _, _)
Edge(edges, node, k) ==
  IF k > Len(edges) THEN [edge |-> NilEdge, err |-> TRUE]
  ELSE IF EdgeMatches(edges[k], node)
       THEN [edge |-> edges[k], err |-> FALSE]
       ELSE Edge(edges, node, k + 1)

InitEdge ==
  /\ NoGraph
  /\ gql = Unused
  /\ store = Unused
  /\ save = Unused
  /\ implicit = Unused
  /\ symtab = Unused
  /\ worker = Unused
  /\ importer = Unused
  /\ \E edges \in EdgeLists : \E node \in EdgeNames \cup {Unknown} :
       edgeCall = [Edges |-> edges, node |-> node, returned |-> FALSE,
                   edge |-> NilEdge, err |-> FALSE]

\* n.Edge(node) is called
CallEdge ==
  /\ ~edgeCall.returned
  /\ LET r == Edge(edgeCall.Edges, edgeCall.node, 1)
     IN edgeCall' = [edgeCall EXCEPT !.returned = TRUE, !.edge = r.edge, !.err = r.err]
  /\ UNCHANGED <<graphVars, mapGraph, gql, store, save, implicit, symtab, worker, importer>>

SpecEdge == InitEdge /\ [][CallEdge]_vars

\* the node has an edge to the table of that name
HasEdgeTo(edges, node) == \E k \in 1..Len(edges) : edges[k].Node = node

\* C22: Edge(b) called on node a returns an edge of a whose destination is b
\* whenever a has an edge to b, and returns an error and no edge exactly when
\* a has no edge to b.
C22_EdgeLookup ==
  edgeCall.returned =>
    /\ HasEdgeTo(edgeCall.Edges, edgeCall.node) =>
         /\ ~edgeCall.err
         /\ edgeCall.edge.Node = edgeCall.node
         /\ \E k \in 1..Len(edgeCall.Edges) : edgeCall.Edges[k] = edgeCall.edge
    /\ edgeCall.err <=> ~HasEdgeTo(edgeCall.Edges, edgeCall.node)
    /\ edgeCall.err => edgeCall.edge = NilEdge

\* Edge has returned an edge that is not the first of the list
C22_Witness ==
  /\ edgeCall.returned
  /\ ~edgeCall.err
  /\ edgeCall.Edges[1].Node # edgeCall.node

-----------------------------------------------------------------------------
(* addImplicitIDs (agent/component/worker/worker.go, lines 282-313)         *)
(* implicit is the record of the tables given to Store.Create and, after    *)
(* the call of line 246, of the tables addImplicitIDs returned. The tables  *)
(* are a list in which a nested table names the index of the table that     *)
(* encloses it (Parent, 0 for a top-level table).                           *)

\* most tables of the schema, nested ones included
MaxTables == 3

\* the name of the implicit identifier field
idFieldName == "_id"

TableNames == <<"A", "B", "C", "D", "E">>

\* the fields a table declares: none, one of the name of the implicit
\* identifier, or one of the name of the identifier of table A
DeclaredFields == {<<>>, <<"_id">>, <<"A_id">>}

\* the tables a table joins explicitly
DeclaredJoins == {<<>>, <<"A">>, <<"B">>}

\* the schemas of n tables: every table is top-level or nested in an earlier one
ImplicitSchemas(n) ==
  { [i \in 1..n |-> [Name |-> TableNames[i], Parent |-> pa[i],
                     Fields |-> fs[i], Joins |-> js[i]]] :
      pa \in { f \in [1..n -> 0..n] : \A i \in 1..n : f[i] < i },
      fs \in [1..n -> DeclaredFields],
      js \in [1..n -> DeclaredJoins] }

\* lines 296-300: the table has a field of that name
HasField(fields, name) == \E k \in 1..Len(fields) : fields[k] = name

\* lines 287-307: the fields of table t of ts after the loop body
WithIDs(ts, t) ==
  LET withID == Append(t.Fields, idFieldName)
      parentIDName == ts[t.Parent].Name \o "_id"
  IN IF t.Parent # 0 /\ ~HasField(withID, parentIDName)
     THEN Append(withID, parentIDName)
     ELSE withID

\* addImplicitIDs(nil, tables), with the recursion of line 309 into the nested
\* tables of every table
addImplicitIDs(ts) ==
  [i \in DOMAIN ts |-> [ts[i] EXCEPT !.Fields = WithIDs(ts, ts[i])]]

InitImplicit ==
  /\ NoGraph
  /\ gql = Unused
  /\ store = Unused
  /\ save = Unused
  /\ edgeCall = Unused
  /\ symtab = Unused
  /\ worker = Unused
  /\ importer = Unused
  /\ \E n \in 0..MaxTables : \E ts \in ImplicitSchemas(n) :
       implicit = [tables |-> ts, altTables |-> <<>>, done |-> FALSE]

\* Store.Create, line 246
AddImplicitIDs ==
  /\ ~implicit.done
  /\ implicit' = [implicit EXCEPT !.altTables = addImplicitIDs(implicit.tables),
                                  !.done = TRUE]
  /\ UNCHANGED <<graphVars, mapGraph, gql, store, save, edgeCall, symtab, worker, importer>>

SpecImplicit == InitImplicit /\ [][AddImplicitIDs]_vars

\* how often the fields have a field of that name
RECURSIVE CountField(_, _)
CountField(fields, name) ==
  IF fields = <<>> THEN 0
  ELSE (IF Head(fields) = name THEN 1 ELSE 0) + CountField(Tail(fields), name)

\* how many fields of that name addImplicitIDs has added to the i-th table
Added(i, name) ==
  CountField(implicit.altTables[i].Fields, name)
    - CountField(implicit.tables[i].Fields, name)

\* the names of the tables the i-th table belongs to: the table that encloses
\* it and the tables it joins explicitly
BelongsToNames(i) ==
  LET t == implicit.tables[i]
  IN { implicit.tables[t.Parent].Name : x \in (IF t.Parent # 0 THEN {1} ELSE {}) }
       \cup { t.Joins[k] : k \in 1..Len(t.Joins) }

IDNames == {idFieldName} \cup { TableNames[k] \o "_id" : k \in 1..Len(TableNames) }

\* C23: after addImplicitIDs every table at every depth has an _id field and a
\* <parent>_id field for each table it belongs to, the table that encloses it
\* and each table it joins explicitly, and no such field has been added twice.
C23_ImplicitIDs ==
  implicit.done =>
    \A i \in DOMAIN implicit.tables :
      /\ HasField(implicit.altTables[i].Fields, idFieldName)
      /\ \A p \in BelongsToNames(i) :
           HasField(implicit.altTables[i].Fields, p \o "_id")
      /\ \A f \in IDNames : Added(i, f) <= 1

\* what addImplicitIDs does give: _id to every table, <parent>_id to every
\* nested table, none of them added twice
ImplicitIDsOfNesting ==
  implicit.done =>
    \A i \in DOMAIN implicit.tables :
      /\ HasField(implicit.altTables[i].Fields, idFieldName)
      /\ implicit.tables[i].Parent # 0 =>
           HasField(implicit.altTables[i].Fields,
                    implicit.tables[implicit.tables[i].Parent].Name \o "_id")
      /\ \A f \in IDNames : Added(i, f) <= 1

-----------------------------------------------------------------------------
(* SymbolTable (parser/symbol_table.go)                                     *)
(* A cty.Value is a record of its kind, its string and its attributes; a    *)
(* map from names to values is a set of records [name, val] with one record *)
(* per name. A traversal is the sequence of the names of its traversers.    *)
(* symtab is the record of s.Variables, of the outputs given to SetOutputs  *)
(* so far for every module, of the last lookup and its result, and of the   *)
(* process having ended in log.Fatal.                                       *)

NilVal == [kind |-> "nil", str |-> "", attrs |-> {}]
NullVal == [kind |-> "null", str |-> "", attrs |-> {}]
StringVal(x) == [kind |-> "string", str |-> x, attrs |-> {}]
ObjectVal(attrs) == [kind |-> "object", str |-> "", attrs |-> attrs]
EmptyObjectVal == ObjectVal({})
\* the process has ended in log.Fatal (line 102)
FatalVal == [kind |-> "fatal", str |-> "", attrs |-> {}]

MapHas(m, k) == \E e \in m : e.name = k
\* m[k]: the zero value, cty.NilVal, when m has no key k
MapGet(m, k) == IF MapHas(m, k) THEN (CHOOSE e \in m : e.name = k).val ELSE NilVal
MapPut(m, k, v) == { e \in m : e.name # k } \cup {[name |-> k, val |-> v]}

\* cty.Value.IsNull
IsNull(v) == v.kind \in {"nil", "null"}

\* line 91: pathVal.AsValueMap()
AsValueMapEmpty(pathVal) == {}
AsValueMap(pathVal) == pathVal.attrs

\* insertCtyValue
RECURSIVE insertCtyValue(_, _, _)
insertCtyValue(pathVal, val, traversal) ==
  IF Len(traversal) = 0 THEN val
  ELSE LET pv == IF IsNull(pathVal) THEN EmptyObjectVal ELSE pathVal
       IN IF pv.kind = "object"
          THEN LET mapVal == AsValueMap(pv)
                   nextVal == MapGet(mapVal, traversal[1])
                   inner == insertCtyValue(nextVal, val, Tail(traversal))
               IN IF inner = FatalVal THEN FatalVal
                  ELSE ObjectVal(MapPut(mapVal, traversal[1], inner))
          ELSE FatalVal

\* cty.Path.Apply: every step is a GetAttrStep
RECURSIVE PathApply(_, _)
PathApply(val, path) ==
  IF Len(path) = 0 THEN [val |-> val, ok |-> TRUE]
  ELSE IF IsNull(val) \/ val.kind # "object" \/ ~MapHas(val.attrs, path[1])
       THEN [val |-> NilVal, ok |-> FALSE]
       ELSE PathApply(MapGet(val.attrs, path[1]), Tail(path))

\* SymbolTable.lookup
lookup(Variables, traversal) ==
  IF Len(traversal) < 1 THEN [val |-> NilVal, ok |-> FALSE]
  ELSE IF ~MapHas(Variables, traversal[1]) THEN [val |-> NilVal, ok |-> FALSE]
       ELSE PathApply(MapGet(Variables, traversal[1]), Tail(traversal))

ModuleNames == {"m1", "m2"}
\* the outputs of a module
OutputVals ==
  {StringVal("x"), NullVal, EmptyObjectVal, ObjectVal({[name |-> "x", val |-> StringVal("y")]})}
\* the inputs of NewSymbolTableWithInputs; NewSymbolTable has none
InputMaps ==
  { {},
    {[name |-> "input", val |-> StringVal("x")]},
    {[name |-> "module", val |-> StringVal("x")]},
    {[name |-> "module", val |-> NullVal]},
    {[name |-> "module", val |-> ObjectVal({[name |-> "m1", val |-> StringVal("y")]})]} }
\* the traversals looked up
TraversalNames == {"module", "m1", "m2", "x"}
Traversals == UNION { [1..n -> TraversalNames] : n \in 0..3 }
NoLookup == [val |-> NilVal, ok |-> TRUE]

InitSymtab ==
  /\ NoGraph
  /\ gql = Unused
  /\ store = Unused
  /\ save = Unused
  /\ edgeCall = Unused
  /\ implicit = Unused
  /\ worker = Unused
  /\ importer = Unused
  /\ \E inputs \in InputMaps :
       symtab = [Variables |-> inputs,
                 outputs |-> [m \in ModuleNames |-> NilVal],
                 traversal |-> <<>>,
                 result |-> NoLookup,
                 fatal |-> FALSE]

SymtabUnchanged ==
  UNCHANGED <<graphVars, mapGraph, gql, store, save, edgeCall, implicit, worker, importer>>

\* SymbolTable.SetOutputs: insert at the traversal module.moduleName
SetOutputs(moduleName, outputs) ==
  /\ ~symtab.fatal
  /\ LET rootVal == MapGet(symtab.Variables, "module")
         new == insertCtyValue(rootVal, outputs, <<moduleName>>)
     IN IF new = FatalVal
        THEN symtab' = [symtab EXCEPT !.fatal = TRUE]
        ELSE symtab' = [symtab EXCEPT !.Variables = MapPut(@, "module", new),
                                      !.outputs[moduleName] = outputs,
                                      !.traversal = <<>>,
                                      !.result = NoLookup]
  /\ SymtabUnchanged

\* SymbolTable.lookup is called
Lookup(traversal) ==
  /\ ~symtab.fatal
  /\ symtab' = [symtab EXCEPT !.traversal = traversal,
                              !.result = lookup(symtab.Variables, traversal)]
  /\ SymtabUnchanged

NextSymtab ==
  \/ \E m \in ModuleNames : \E v \in OutputVals : SetOutputs(m, v)
  \/ \E t \in Traversals : Lookup(t)

SpecSymtab == InitSymtab /\ [][NextSymtab]_vars

\* the value at the traversal, from its last step back to the root
RECURSIVE ValueAt(_, _)
ValueAt(Variables, t) ==
  IF Len(t) = 1 THEN MapGet(Variables, t[1])
  ELSE MapGet(ValueAt(Variables, SubSeq(t, 1, Len(t) - 1)).attrs, t[Len(t)])

\* there is a value at the traversal
RECURSIVE Exists(_, _)
Exists(Variables, t) ==
  IF Len(t) = 0 THEN FALSE
  ELSE IF Len(t) = 1 THEN MapHas(Variables, t[1])
  ELSE LET front == SubSeq(t, 1, Len(t) - 1)
       IN /\ Exists(Variables, front)
          /\ ValueAt(Variables, front).kind = "object"
          /\ MapHas(ValueAt(Variables, front).attrs, t[Len(t)])

LookedUp == symtab.result # NoLookup

\* C24: after SetOutputs(m, v) the lookup of module.m returns (v, true), the
\* outputs set before for the other modules are still returned by their
\* lookups, and the lookup of a traversal at which there is no value returns
\* (NilVal, false).
C24_SymbolTableRoundTrip ==
  ~symtab.fatal =>
    /\ \A m \in ModuleNames :
         symtab.outputs[m] # NilVal =>
           /\ lookup(symtab.Variables, <<"module", m>>) = [val |-> symtab.outputs[m], ok |-> TRUE]
           /\ (LookedUp /\ symtab.traversal = <<"module", m>>) =>
                symtab.result = [val |-> symtab.outputs[m], ok |-> TRUE]
    /\ (LookedUp /\ ~Exists(symtab.Variables, symtab.traversal)) =>
         symtab.result = [val |-> NilVal, ok |-> FALSE]

\* the outputs of both modules are set and those of m1, set first or last, have
\* been looked up
C24_Witness ==
  /\ symtab.outputs["m1"] # NilVal
  /\ symtab.outputs["m2"] # NilVal
  /\ symtab.outputs["m1"] # symtab.outputs["m2"]
  /\ LookedUp
  /\ symtab.traversal = <<"module", "m1">>
  /\ symtab.result.ok

-----------------------------------------------------------------------------
(* Worker (agent/component/worker/worker.go, lines 43-176)                  *)
(* worker is the record of Worker.Run (runPc), of the goroutine it starts   *)
(* (goPc, with i the index of the loop of line 155 and pending the error    *)
(* the goroutine is about to send), of the channel ch (its buffer and       *)
(* whether it is closed), of the agent context, of the last reply of        *)
(* w.Request, and of what the goroutine has done: the number of errors      *)
(* sent, whether it has slept, and whether it took a step after an error    *)
(* was sent.                                                                *)

\* most resources in a reply
MaxResources == 2

\* capacity of the channel of line 121
ChanCap == 1

\* a resource block of the reply: whether ResourceBlock() and api.NewResource
\* fail for it
ResourceBlocks == [blockErr : BOOLEAN, resErr : BOOLEAN]
ResourceLists == UNION { [1..n -> ResourceBlocks] : n \in 0..MaxResources }

\* the replies of w.Request: a request error, or data that is the JSON null,
\* data that does not unmarshal, or data that is a list of resource blocks
Replies ==
  {[err |-> TRUE, json |-> "none", resources |-> <<>>],
   [err |-> FALSE, json |-> "null", resources |-> <<>>],
   [err |-> FALSE, json |-> "bad", resources |-> <<>>]}
  \cup { [err |-> FALSE, json |-> "list", resources |-> rs] : rs \in ResourceLists }
NoReply == [err |-> FALSE, json |-> "none", resources |-> <<>>]

\* json.Unmarshal(reply.Data, &resBlockJson), lines 74-75 and 147-148
Unmarshal(reply) ==
  [isNil |-> reply.json = "null",
   err |-> reply.json = "bad",
   list |-> IF reply.json = "list" THEN reply.resources ELSE <<>>]

\* line 88: the list is not the empty list
NonEmptyAlways(list) == TRUE
NonEmpty(list) == list # <<>>

\* lines 73-94: pollResources returns the reply
Usable(reply) ==
  /\ ~reply.err
  /\ ~Unmarshal(reply).isNil
  /\ ~Unmarshal(reply).err
  /\ NonEmpty(Unmarshal(reply).list)

InitWorker ==
  /\ NoGraph
  /\ gql = Unused
  /\ store = Unused
  /\ save = Unused
  /\ edgeCall = Unused
  /\ implicit = Unused
  /\ symtab = Unused
  /\ importer = Unused
  /\ worker = [runPc |-> "start", goPc |-> "none", i |-> 0, pending |-> FALSE,
               ch |-> <<>>, closed |-> FALSE, ctxDone |-> FALSE,
               reply |-> NoReply, pollErr |-> FALSE,
               sent |-> 0, slept |-> FALSE, after |-> FALSE]

WorkerUnchanged ==
  UNCHANGED <<graphVars, mapGraph, gql, store, save, edgeCall, implicit, symtab, importer>>

\* the goroutine takes a step: it is one taken after an error was sent exactly
\* when an error has been sent
GoStep(w) == [w EXCEPT !.after = (worker.sent > 0)]

\* Run, lines 121-126: make the channel, start the goroutine
RunStart ==
  /\ worker.runPc = "start"
  /\ worker' = [worker EXCEPT !.runPc = "select", !.goPc = "request"]
  /\ WorkerUnchanged

\* Run, lines 130-131: an error is received from ch
Receive ==
  /\ worker.runPc = "select"
  /\ Len(worker.ch) > 0
  /\ worker' = [worker EXCEPT !.runPc = "return", !.ch = Tail(@)]
  /\ WorkerUnchanged

\* the agent context is cancelled
Cancel ==
  /\ ~worker.ctxDone
  /\ worker.runPc # "returned"
  /\ worker' = [worker EXCEPT !.ctxDone = TRUE]
  /\ WorkerUnchanged

\* Run, lines 133-134: the agent context is done
Done ==
  /\ worker.runPc = "select"
  /\ worker.ctxDone
  /\ worker' = [worker EXCEPT !.runPc = "return"]
  /\ WorkerUnchanged

\* Run returns: the deferred close(ch) of line 122
Close ==
  /\ worker.runPc = "return"
  /\ worker' = [worker EXCEPT !.runPc = "returned", !.closed = TRUE]
  /\ WorkerUnchanged

\* pollResources, lines 68-94: w.Request and the look at its reply
Request(reply) ==
  /\ worker.goPc = "request"
  /\ worker' = [GoStep(worker) EXCEPT
                  !.reply = reply,
                  !.goPc = IF Usable(reply) THEN "polled" ELSE "sleep"]
  /\ WorkerUnchanged

\* pollResources, line 107: time.Sleep returns
Sleep ==
  /\ worker.goPc = "sleep"
  /\ worker' = [GoStep(worker) EXCEPT !.goPc = "request", !.slept = TRUE]
  /\ WorkerUnchanged

\* run, lines 141-145: pollResources has returned (reply, nil)
Polled ==
  /\ worker.goPc = "polled"
  /\ ~worker.pending
  /\ worker' = [GoStep(worker) EXCEPT !.goPc = "unmarshal", !.pending = worker.pollErr]
  /\ WorkerUnchanged

\* run, lines 147-151
UnmarshalReply ==
  /\ worker.goPc = "unmarshal"
  /\ ~worker.pending
  /\ worker' = [GoStep(worker) EXCEPT !.goPc = "block", !.i = 1,
                                    !.pending = Unmarshal(worker.reply).err]
  /\ WorkerUnchanged

\* run, lines 155-160: the loop takes the next resource block, or ends
ResourceBlock ==
  /\ worker.goPc = "block"
  /\ ~worker.pending
  /\ LET list == Unmarshal(worker.reply).list
     IN IF worker.i > Len(list)
        THEN worker' = [GoStep(worker) EXCEPT !.goPc = "work"]
        ELSE worker' = [GoStep(worker) EXCEPT !.goPc = "resource",
                                            !.pending = list[worker.i].blockErr]
  /\ WorkerUnchanged

\* run, lines 161-167
NewResource ==
  /\ worker.goPc = "resource"
  /\ ~worker.pending
  /\ worker' = [GoStep(worker) EXCEPT
                  !.goPc = "block", !.i = @ + 1,
                  !.pending = Unmarshal(worker.reply).list[worker.i].resErr]
  /\ WorkerUnchanged

\* run, lines 172-175: w.ResourceWorker.Run returns
Work(failed) ==
  /\ worker.goPc = "work"
  /\ ~worker.pending
  /\ worker' = [GoStep(worker) EXCEPT !.goPc = "done", !.pending = failed]
  /\ WorkerUnchanged

\* ch <- err (lines 144, 150, 159, 164, 174): the send panics on a closed
\* channel, waits while the buffer is full, and goes on otherwise
Send ==
  /\ worker.pending
  /\ worker.goPc # "panic"
  /\ IF worker.closed
     THEN worker' = [GoStep(worker) EXCEPT !.goPc = "panic"]
     ELSE /\ Len(worker.ch) < ChanCap
          /\ worker' = [GoStep(worker) EXCEPT !.ch = Append(@, "err"),
                                            !.pending = FALSE,
                                            !.sent = @ + 1]
  /\ WorkerUnchanged

NextWorker ==
  \/ RunStart
  \/ Receive
  \/ Cancel
  \/ Done
  \/ Close
  \/ \E reply \in Replies : Request(reply)
  \/ Sleep
  \/ Polled
  \/ UnmarshalReply
  \/ ResourceBlock
  \/ NewResource
  \/ \E failed \in BOOLEAN : Work(failed)
  \/ Send

SpecWorker == InitWorker /\ [][NextWorker]_vars

\* time.Sleep returns and the goroutine is scheduled
SpecWorkerLive == SpecWorker /\ WF_vars(Sleep)

\* C26: the goroutine never sends on the error channel after Run has returned
\* and closed it.
C26_NoSendAfterClose == worker.goPc # "panic"

\* C27: once the goroutine has sent an error it performs no further step: it
\* sends at most one error and never goes on after a reported failure.
C27_StopsAfterError == worker.sent <= 1 /\ ~worker.after

\* pollResources is running
Polling == worker.goPc \in {"request", "sleep"}

\* C28: pollResources returns only a reply received without request error
\* whose data unmarshals without error to a non-empty list, and never an
\* error; in every other case it sleeps and requests again.
C28_PollUntilResources ==
  /\ [][(worker.goPc = "request" /\ worker'.goPc # "request") =>
          IF ~worker'.reply.err /\ worker'.reply.json = "list"
               /\ Len(worker'.reply.resources) > 0
          THEN worker'.goPc = "polled" /\ ~worker'.pollErr
          ELSE worker'.goPc = "sleep"]_vars
  /\ [][(worker.goPc = "sleep" /\ worker'.goPc # "sleep") =>
          worker'.goPc = "request"]_vars
  /\ [](~Polling /\ worker.goPc # "none" =>
          /\ ~worker.pollErr
          /\ ~worker.reply.err
          /\ worker.reply.json = "list"
          /\ Len(worker.reply.resources) > 0)
  /\ (worker.goPc = "sleep") ~> (worker.goPc = "request")

\* pollResources has returned a reply after it slept
C28_Witness == worker.goPc = "polled" /\ worker.slept

-----------------------------------------------------------------------------
(* Importer.Apply (api/v1/importer.go)                                      *)
(* importer is the record of what the call meets (whether each decode, the  *)
(* read of the file, the parse of the JSON and the conversion to the format *)
(* fail, and the type of the importer) and of what Apply returned.          *)

ResourceOutputSuccess == "success"
ResourceOutputFailure == "failure"
jsonImporterType == "json"
xmlImporterType == "xml"

\* what a call of Apply meets
ImporterInputs ==
  [decodeSpecErr : BOOLEAN, Type : {jsonImporterType, xmlImporterType, "rest"},
   decodeSourceErr : BOOLEAN, readErr : BOOLEAN, parseErr : BOOLEAN,
   convertErr : BOOLEAN]

\* what a function returns: a value and an error
Returns(val, error) == [val |-> val, err |-> error]

\* jsonSource.Resolve
jsonResolve(in) ==
  IF in.readErr THEN Returns("NilVal", TRUE)
  ELSE IF in.parseErr THEN Returns("NilVal", TRUE)
  ELSE IF in.convertErr THEN Returns("NilVal", FALSE)
  ELSE Returns("val", FALSE)

\* xmlSource.Resolve
xmlResolve(in) == Returns("NilVal", TRUE)

\* Importer.decode: "panic" for a type that is neither json nor xml
decode(in) ==
  IF in.decodeSpecErr THEN "error"
  ELSE IF in.Type \notin {jsonImporterType, xmlImporterType} THEN "panic"
  ELSE IF in.decodeSourceErr THEN "error"
  ELSE "nil"

ResourceOutput(status, error, value) ==
  [Status |-> status, Error |-> error, Value |-> value, panicked |-> FALSE]
Panicked == [Status |-> "none", Error |-> FALSE, Value |-> "none", panicked |-> TRUE]
NoOutput == [Status |-> "none", Error |-> FALSE, Value |-> "none", panicked |-> FALSE]

\* Importer.Apply
ApplyOutput(in) ==
  IF decode(in) = "panic" THEN Panicked
  ELSE IF decode(in) = "error"
  THEN ResourceOutput(ResourceOutputFailure, TRUE, "none")
  ELSE LET r == IF in.Type = jsonImporterType THEN jsonResolve(in) ELSE xmlResolve(in)
       IN IF r.err
          THEN ResourceOutput(ResourceOutputFailure, TRUE, "NilVal")
          ELSE ResourceOutput(ResourceOutputSuccess, FALSE, r.val)

InitImporter ==
  /\ NoGraph
  /\ gql = Unused
  /\ store = Unused
  /\ save = Unused
  /\ edgeCall = Unused
  /\ implicit = Unused
  /\ symtab = Unused
  /\ worker = Unused
  /\ \E in \in ImporterInputs : importer = [in |-> in, out |-> NoOutput]

\* Importer.Apply is called
Apply ==
  /\ importer.out = NoOutput
  /\ importer' = [importer EXCEPT !.out = ApplyOutput(importer.in)]
  /\ UNCHANGED <<graphVars, mapGraph, gql, store, save, edgeCall, implicit, symtab, worker>>

SpecImporter == InitImporter /\ [][Apply]_vars

\* Apply has returned an output
Applied == importer.out # NoOutput /\ ~importer.out.panicked

\* the source was read, parsed and converted to a value of the declared format
Imported ==
  /\ ~importer.in.decodeSpecErr
  /\ ~importer.in.decodeSourceErr
  /\ importer.in.Type = jsonImporterType
  /\ ~importer.in.readErr
  /\ ~importer.in.parseErr
  /\ ~importer.in.convertErr

\* C29: Apply returns Success with a nil Error only when the source was read,
\* parsed and converted to a value of the declared format; every failure,
\* JSON data that cannot be converted to the format included, returns Failure
\* with a non-nil Error.
C29_SuccessOnlyWhenImported ==
  Applied =>
    IF Imported
    THEN importer.out.Status = ResourceOutputSuccess /\ ~importer.out.Error
    ELSE importer.out.Status = ResourceOutputFailure /\ importer.out.Error

\* the same for every failure but that of the conversion
FailureBeforeConversion ==
  (Applied /\ ~importer.in.convertErr) =>
    IF Imported
    THEN importer.out.Status = ResourceOutputSuccess /\ ~importer.out.Error
    ELSE importer.out.Status = ResourceOutputFailure /\ importer.out.Error

====
